---- MODULE Spec2Model ----
(***************************************************************************)
(* Model of src/index.ts: two counter indexes ("tags", "people") kept as   *)
(* two items of one DynamoDB table.  putItem increments counters in place, *)
(* getItem reads both items, prunes the non-positive counters and writes   *)
(* the pruned maps back.                                                   *)
(*                                                                         *)
(* A process is one Node.js process (one Lambda container): it owns the    *)
(* module-level object defaultIndex and serves one request at a time.      *)
(* Several processes share the table.  Every request to the table is one   *)
(* atomic step; the JavaScript between two requests runs inside the step   *)
(* that receives the earlier request's answer.                             *)
(*                                                                         *)
(* Taken as given: DYNAMODB_TABLE_INDEXES is set, so getIndexTableName     *)
(* never throws; the table may reject any request; a batchGet or          *)
(* batchWrite that is fulfilled is processed for both keys.                *)
(* Items are removed only by the operator's reset (README), which is part  *)
(* of SpecReset alone.                                                     *)
(***************************************************************************)
EXTENDS Integers, Sequences, FiniteSets, TLC

VARIABLES
  store,         \* the table: store[s] is the item whose id is s
  clock,         \* the wall clock read by new Date().getTime()
  defaultIndex,  \* defaultIndex[p]: the module-level defaultIndex of process p
  proc,          \* proc[p]: the call process p is serving
  callback       \* the response handed to a caller by the last step, if any

vars == <<store, clock, defaultIndex, proc, callback>>

----------------------------------------------------------------------------
(* Bounds *)

MaxClock == 2        \* the clock stops starting writes at this reading

Procs == {"p1", "p2"}
Keys == {"a", "b"}
KeyOrder == <<"a", "b">>     \* the enumeration order Object.keys yields

----------------------------------------------------------------------------
(* Program constants *)

TAGS_ID == "tags"
PEOPLE_ID == "people"
Slots == {TAGS_ID, PEOPLE_ID}

\* The two error kinds the catch handler of updateAndHandleEmptyMap tells apart,
\* and the other rejections a request can end with.
MissingFieldPath == "ValidationException: The document path provided in the update expression is invalid for update"
ConditionalCheckFailed == "ConditionalCheckFailedException"
StorageError == "StorageError"
TypeError == "TypeError"
SyntaxError == "SyntaxError"

----------------------------------------------------------------------------
(* Values *)

EmptyMap == <<>>

\* A map from keys to values, as a function on a subset of Keys.
MapsOver(vals) == UNION {[d -> vals] : d \in SUBSET Keys}

\* An entry of an IIndexDictionary handed to getDynamoDbUpdateItemParams: a
\* number, or undefined.
Num(d) == [defined |-> TRUE, value |-> d]
Undefined == [defined |-> FALSE, value |-> 0]

\* An absent attribute is the empty sequence, a present one <<value>>.
Absent == <<>>
Present(v) == <<v>>

\* The item of a slot: no item at all, or {id, indexKeys?, updatedAt?}.
NoRecord == [exists |-> FALSE, indexKeys |-> Absent, updatedAt |-> Absent]
Record(keys, at) == [exists |-> TRUE, indexKeys |-> keys, updatedAt |-> at]

HasIndexKeys(rec) == rec.exists /\ rec.indexKeys # Absent
IndexKeysOf(rec) == rec.indexKeys[1]

NoError == "none"

----------------------------------------------------------------------------
(* The table's requests, as the expressions built in the source evaluate *)

\* A request log entry: which request was sent for which item, and how it ended.
Req(kind, id, outcome) == [request |-> kind, id |-> id, outcome |-> outcome]

\* The increment without if_not_exists(...) + : every clause sets its counter
\* to :zero + :i, whatever the item holds.
UpdateItem_Overwrite(rec, ddbParams) ==
  IF ~HasIndexKeys(rec)
  THEN [error |-> MissingFieldPath, item |-> rec]
  ELSE LET old == IndexKeysOf(rec)
           names == ddbParams.ExpressionAttributeNames
           values == ddbParams.ExpressionAttributeValues
           clauses == ddbParams.UpdateExpression
           set == {names[clauses[i].path] : i \in DOMAIN clauses}
           ClauseFor(k) == CHOOSE i \in DOMAIN clauses : names[clauses[i].path] = k
           new == [k \in DOMAIN old \cup set |->
                     IF k \in set
                     THEN values.zero + values.operand[clauses[ClauseFor(k)].operand]
                     ELSE old[k]]
       IN [error |-> NoError,
           item |-> Record(Present(new), Present(values.updatedAt))]

\* dynamodb.update of the increment request: every clause
\*   #indexKeysProp.#i = if_not_exists(#indexKeysProp.#i, :zero) + :i
\* reads the item as it was before the request, and updatedAt = :updatedAt.
\* The path #indexKeysProp.#i is invalid when the item has no indexKeys map.
UpdateItem(rec, ddbParams) ==
  IF ~HasIndexKeys(rec)
  THEN [error |-> MissingFieldPath, item |-> rec]
  ELSE LET old == IndexKeysOf(rec)
           names == ddbParams.ExpressionAttributeNames
           values == ddbParams.ExpressionAttributeValues
           clauses == ddbParams.UpdateExpression
           set == {names[clauses[i].path] : i \in DOMAIN clauses}
           ClauseFor(k) == CHOOSE i \in DOMAIN clauses : names[clauses[i].path] = k
           new == [k \in DOMAIN old \cup set |->
                     IF k \in set
                     THEN (IF k \in DOMAIN old THEN old[k] ELSE values.zero)
                            + values.operand[clauses[ClauseFor(k)].operand]
                     ELSE old[k]]
       IN [error |-> NoError,
           item |-> Record(Present(new), Present(values.updatedAt))]

\* setMapParams without the ConditionExpression: the map is always set empty.
SetEmptyMap_Unconditional(rec) ==
  [error |-> NoError, item |-> Record(Present(EmptyMap), rec.updatedAt)]

\* dynamodb.update of setMapParams: SET #indexKeysProp = :emptyMap under the
\* condition attribute_not_exists(#indexKeysProp); an update creates the item
\* when there is none and leaves the other attributes alone.
SetEmptyMap(rec) ==
  IF HasIndexKeys(rec)
  THEN [error |-> ConditionalCheckFailed, item |-> rec]
  ELSE [error |-> NoError, item |-> Record(Present(EmptyMap), rec.updatedAt)]

\* dynamodb.batchGet of both keys: the items that exist, each with its id.
BatchGet(table) ==
  {[id |-> s, indexKeys |-> table[s].indexKeys, updatedAt |-> table[s].updatedAt] :
     s \in {x \in Slots : table[x].exists}}

\* The batchWrite with a DeleteRequest for a slot whose map is empty.
BatchWrite_DeletesEmpty(ddbParams) ==
  [s \in Slots |->
     IF ddbParams.Item[s].indexKeys = EmptyMap THEN NoRecord
     ELSE Record(Present(ddbParams.Item[s].indexKeys), Absent)]

\* dynamodb.batchWrite of the two PutRequests: each item is replaced by
\* {id, indexKeys}, so an updatedAt it had is gone.
BatchWrite(ddbParams) ==
  [s \in Slots |-> Record(Present(ddbParams.Item[s].indexKeys), Absent)]

----------------------------------------------------------------------------
(* Pure functions of src/index.ts *)

\* Object.keys(indexData).filter((k) => indexData[k] !== undefined)
ValidKeys(indexData) ==
  SelectSeq(KeyOrder, LAMBDA k : k \in DOMAIN indexData /\ indexData[k].defined)

\* getDynamoDbUpdateItemParams with every clause adding the first value (:0).
getDynamoDbUpdateItemParams_FirstValue(indexId, indexData, now) ==
  IF indexData = Absent
  THEN [kind |-> "throw", error |-> TypeError]
  ELSE LET validKeys == ValidKeys(indexData[1]) IN
       IF Len(validKeys) > 0
       THEN [kind |-> "params",
             Key |-> indexId,
             ExpressionAttributeNames |-> validKeys,
             ExpressionAttributeValues |->
               [operand |-> [i \in 1..Len(validKeys) |-> indexData[1][validKeys[i]].value],
                updatedAt |-> now,
                zero |-> 0],
             UpdateExpression |->
               [i \in 1..Len(validKeys) |-> [path |-> i, operand |-> 1]]]
       ELSE [kind |-> "null"]

\* getDynamoDbUpdateItemParams building a request also when no key is valid.
getDynamoDbUpdateItemParams_NeverNull(indexId, indexData, now) ==
  IF indexData = Absent
  THEN [kind |-> "throw", error |-> TypeError]
  ELSE LET validKeys == ValidKeys(indexData[1]) IN
       [kind |-> "params",
        Key |-> indexId,
        ExpressionAttributeNames |-> validKeys,
        ExpressionAttributeValues |->
          [operand |-> [i \in 1..Len(validKeys) |-> indexData[1][validKeys[i]].value],
           updatedAt |-> now,
           zero |-> 0],
        UpdateExpression |->
          [i \in 1..Len(validKeys) |-> [path |-> i, operand |-> i]]]

\* getDynamoDbUpdateItemParams(indexId, indexData) with new Date().getTime() = now.
\* indexData is Absent when the caller passes undefined: Object.keys(undefined)
\* throws.  The placeholders #idx and :idx are the positions of validKeys
\* (counted from 1 here, from 0 in the source).
getDynamoDbUpdateItemParams(indexId, indexData, now) ==
  IF indexData = Absent
  THEN [kind |-> "throw", error |-> TypeError]
  ELSE LET validKeys == ValidKeys(indexData[1]) IN
       IF Len(validKeys) > 0
       THEN [kind |-> "params",
             Key |-> indexId,
             ExpressionAttributeNames |-> validKeys,
             ExpressionAttributeValues |->
               [operand |-> [i \in 1..Len(validKeys) |-> indexData[1][validKeys[i]].value],
                updatedAt |-> now,
                zero |-> 0],
             UpdateExpression |->
               [i \in 1..Len(validKeys) |-> [path |-> i, operand |-> i]]]
       ELSE [kind |-> "null"]

\* The catch handler taking no error for the missing map, and taking every one for it.
IsMissingFieldPath_Never(e) == FALSE
IsMissingFieldPath_Always(e) == TRUE

\* The test of the catch handler of updateAndHandleEmptyMap.
IsMissingFieldPath(e) == e = MissingFieldPath

\* parseIndexesObject(ddbResponse) in a process whose defaultIndex is dflt:
\* the record's indexKeys when the record is found and the attribute is truthy
\* (any map is), else the map object of defaultIndex.
parseIndexesObject(ddbResponse, dflt) ==
  [s \in Slots |->
     LET found == {r \in ddbResponse : r.id = s} IN
     IF found # {} /\ (CHOOSE r \in found : TRUE).indexKeys # Absent
     THEN (CHOOSE r \in found : TRUE).indexKeys[1]
     ELSE dflt[s]]

\* cleanZeroIndexes with the assignment outside the else branch: every entry
\* is kept, and an entry <= 0 still asks for the write.
cleanZeroIndexes_KeepsAll(indexObject, dflt) ==
  [cleanedIndex |->
     [s \in Slots |->
        [k \in DOMAIN dflt[s] \cup DOMAIN indexObject[s] |->
           IF k \in DOMAIN indexObject[s] THEN indexObject[s][k] ELSE dflt[s][k]]],
   updateNeeded |-> \E s \in Slots : \E k \in DOMAIN indexObject[s] : indexObject[s][k] <= 0]

\* cleanZeroIndexes with < 0 in place of <= 0: a counter of 0 is kept.
cleanZeroIndexes_KeepsZero(indexObject, dflt) ==
  LET Kept(s) == {k \in DOMAIN indexObject[s] : ~(indexObject[s][k] < 0)} IN
  [cleanedIndex |->
     [s \in Slots |->
        [k \in DOMAIN dflt[s] \cup Kept(s) |->
           IF k \in Kept(s) THEN indexObject[s][k] ELSE dflt[s][k]]],
   updateNeeded |-> \E s \in Slots : \E k \in DOMAIN indexObject[s] : indexObject[s][k] < 0]

\* cleanZeroIndexes(indexObject), its synchronous part, in a process whose
\* defaultIndex is dflt.  cleanedIndex = {...defaultIndex} copies the two
\* references, so cleanedIndex.people and cleanedIndex.tags are the map objects
\* of defaultIndex: the kept entries are assigned into them.
cleanZeroIndexes(indexObject, dflt) ==
  LET Kept(s) == {k \in DOMAIN indexObject[s] : ~(indexObject[s][k] <= 0)} IN
  [cleanedIndex |->
     [s \in Slots |->
        [k \in DOMAIN dflt[s] \cup Kept(s) |->
           IF k \in Kept(s) THEN indexObject[s][k] ELSE dflt[s][k]]],
   updateNeeded |-> \E s \in Slots : \E k \in DOMAIN indexObject[s] : indexObject[s][k] <= 0]

\* updateCleanIndexes with the tags map put into both items.
updateCleanIndexes_TagsTwice(indexObject) ==
  [Item |-> [s \in Slots |-> [id |-> s, indexKeys |-> indexObject[TAGS_ID]]]]

\* The BatchWriteItemInput of updateCleanIndexes(indexObject).
updateCleanIndexes(indexObject) ==
  [Item |-> [s \in Slots |-> [id |-> s, indexKeys |-> indexObject[s]]]]

----------------------------------------------------------------------------
(* Calls and responses *)

\* The values a slot of indexUpdate may have in a request body: missing, or a
\* map of numbers (JSON has no undefined).
SlotUpdates ==
  {Absent, Present(EmptyMap),
   Present([k \in Keys |-> Num(IF k = "a" THEN -1 ELSE 1)])}

\* event.body of putItem: a body JSON.parse rejects, or {indexUpdate: {tags?, people?}}.
Malformed == [malformed |-> TRUE, indexUpdate |-> [tags |-> Absent, people |-> Absent]]
Bodies ==
  {Malformed} \cup
  {[malformed |-> FALSE, indexUpdate |-> [tags |-> t, people |-> q]] :
     t \in SlotUpdates, q \in SlotUpdates}

\* The dictionaries of a direct call of updateIndexRecord: entries may be undefined.
DirectUpdates ==
  {Present(m) : m \in {[k \in {"a"} |-> Undefined],
                       [k \in Keys |-> IF k = "a" THEN Undefined ELSE Num(1)]}}

\* The batch-read results of a direct call of parseIndexesObject: no item, an
\* item without indexKeys, an item with counters, one slot or both.
ItemRead(id, keys) == [id |-> id, indexKeys |-> keys, updatedAt |-> Absent]
DirectResponses ==
  {{},
   {ItemRead(PEOPLE_ID, Absent)},
   {ItemRead(TAGS_ID, Present([k \in {"b"} |-> 2]))},
   {ItemRead(TAGS_ID, Absent), ItemRead(PEOPLE_ID, Present([k \in {"b"} |-> 2]))}}

\* The snapshots of a direct call of cleanZeroIndexes.
DirectIndexes ==
  {[tags |-> t, people |-> q] :
     t \in {EmptyMap, [k \in {"a"} |-> 1], [k \in Keys |-> IF k = "a" THEN 0 ELSE 1]},
     q \in {EmptyMap, [k \in {"a"} |-> 1]}}

\* What an awaited updateIndexRecord resolves to: undefined (the slot was
\* skipped) or the UpdateItemOutput, whose Attributes are the item as updated
\* (ReturnValues: ALL_NEW).
Skipped == [skipped |-> TRUE, Attributes |-> NoRecord]
Updated(item) == [skipped |-> FALSE, Attributes |-> item]

NoIndex == [s \in Slots |-> EmptyMap]
failure(e) == [status |-> "failure", error |-> e]
success(v) == [status |-> "success", result |-> v]

\* A process serving no call.
Idle ==
  [pc |-> "idle", op |-> "none", event |-> Malformed, indexId |-> "none",
   ddbParams |-> [kind |-> "null"], tagsUpdateResponse |-> Skipped,
   ddbResponse |-> {}, indexesObject |-> NoIndex, requests |-> <<>>]

\* A process that has just been called: op is the function called, event its argument.
Started(op, event) == [Idle EXCEPT !.op = op, !.event = event]

\* What a step of process p leaves: the process as it goes on, and the response
\* handed to the caller when the call ends in this step.  The response comes
\* with the call it answers and the requests the call has sent to the table.
NoCallback ==
  [proc |-> "none", op |-> "none", event |-> Malformed, requests |-> <<>>,
   response |-> [status |-> "none"]]
Pending(pr) == [pr |-> pr, cb |-> NoCallback]
Respond(p, pr, response) ==
  [pr |-> Idle,
   cb |-> [proc |-> p, op |-> pr.op, event |-> pr.event,
           requests |-> pr.requests, response |-> response]]

Sent(pr, kind, id, outcome) ==
  [pr EXCEPT !.requests = Append(@, Req(kind, id, outcome))]

RECURSIVE Await(_, _, _, _, _)

\* The awaited updateIndexRecord(indexId, ...) has resolved to value: putItem
\* goes on to the people index after the tags index, and responds after the
\* people index; a direct caller has its value.
Resolved(p, pr, indexId, value, now) ==
  IF pr.op = "putItem" /\ indexId = TAGS_ID
  THEN Await(p, [pr EXCEPT !.tagsUpdateResponse = value],
             PEOPLE_ID, pr.event.indexUpdate.people, now)
  ELSE IF pr.op = "putItem"
  THEN Respond(p, pr, success([tagsUpdateResponse |-> pr.tagsUpdateResponse,
                               peopleUpdateResponse |-> value]))
  ELSE Respond(p, pr, success(value))

\* await updateIndexRecord(indexId, indexData): the parameters are built at
\* once; with parameters, the first dynamodb.update is sent.
Await(p, pr, indexId, indexData, now) ==
  LET ddbParams == getDynamoDbUpdateItemParams(indexId, indexData, now) IN
  IF ddbParams.kind = "throw" THEN Respond(p, pr, failure(ddbParams.error))
  ELSE IF ddbParams.kind = "null" THEN Resolved(p, pr, indexId, Skipped, now)
  ELSE Pending([pr EXCEPT !.pc = "update", !.indexId = indexId, !.ddbParams = ddbParams])

----------------------------------------------------------------------------
(* The state machine *)

TypeOK ==
  /\ clock \in 0..MaxClock
  /\ DOMAIN store = Slots
  /\ DOMAIN defaultIndex = Procs
  /\ \A p \in Procs : proc[p].pc \in {"idle", "update", "init", "retry", "fetch", "write"}

\* A table as an earlier run can have left it: per slot no item, an item
\* without indexKeys, or an item with counters.
InitRecords ==
  {NoRecord, Record(Absent, Absent), Record(Present([k \in {"a"} |-> 1]), Present(0))}

Init ==
  /\ \E r \in InitRecords : store = [s \in Slots |-> r]
  /\ clock = 0
  /\ defaultIndex = [p \in Procs |-> NoIndex]
  /\ proc = [p \in Procs |-> Idle]
  /\ callback = NoCallback

\* Process p goes on as the step result says.
Goes(p, result) ==
  /\ proc' = [proc EXCEPT ![p] = result.pr]
  /\ callback' = result.cb

\* putItem(event): parse the body, then update the tags index.
PutItem(p, body) ==
  /\ proc[p].pc = "idle"
  /\ clock < MaxClock
  /\ clock' = clock + 1
  /\ Goes(p, IF body.malformed
             THEN Respond(p, Started("putItem", body), failure(SyntaxError))
             ELSE Await(p, Started("putItem", body), TAGS_ID, body.indexUpdate.tags, clock'))
  /\ UNCHANGED <<store, defaultIndex>>

\* The ways a dynamodb.update can end: as the table evaluates it, or rejected
\* for another reason (throttling, network), the table untouched.
Outcomes(evaluated, rec) == {evaluated, [error |-> StorageError, item |-> rec]}

\* updateAndHandleEmptyMap with a catch handler that returns nothing for
\* another error in place of throwing it: the call resolves to undefined.
Update_SwallowsError(p) ==
  LET pr == proc[p]
      id == pr.indexId IN
  /\ pr.pc = "update"
  /\ \E out \in Outcomes(UpdateItem(store[id], pr.ddbParams), store[id]) :
       LET sent == Sent(pr, "update", id, out.error) IN
       /\ store' = [store EXCEPT ![id] = out.item]
       /\ Goes(p, IF out.error = NoError THEN Resolved(p, sent, id, Updated(out.item), clock)
                  ELSE IF IsMissingFieldPath(out.error) THEN Pending([sent EXCEPT !.pc = "init"])
                  ELSE Resolved(p, sent, id, Skipped, clock))
  /\ UNCHANGED <<clock, defaultIndex>>

\* updateAndHandleEmptyMap: the first dynamodb.update(ddbParams) settles.
Update(p) ==
  LET pr == proc[p]
      id == pr.indexId IN
  /\ pr.pc = "update"
  /\ \E out \in Outcomes(UpdateItem(store[id], pr.ddbParams), store[id]) :
       LET sent == Sent(pr, "update", id, out.error) IN
       /\ store' = [store EXCEPT ![id] = out.item]
       /\ Goes(p, IF out.error = NoError THEN Resolved(p, sent, id, Updated(out.item), clock)
                  ELSE IF IsMissingFieldPath(out.error) THEN Pending([sent EXCEPT !.pc = "init"])
                  ELSE Respond(p, sent, failure(out.error)))
  /\ UNCHANGED <<clock, defaultIndex>>

\* updateAndHandleEmptyMap: dynamodb.update(setMapParams) settles; .then runs
\* only when it is fulfilled.
InitMap(p) ==
  LET pr == proc[p]
      id == pr.indexId IN
  /\ pr.pc = "init"
  /\ \E out \in Outcomes(SetEmptyMap(store[id]), store[id]) :
       LET sent == Sent(pr, "init", id, out.error) IN
       /\ store' = [store EXCEPT ![id] = out.item]
       /\ Goes(p, IF out.error = NoError THEN Pending([sent EXCEPT !.pc = "retry"])
                  ELSE Respond(p, sent, failure(out.error)))
  /\ UNCHANGED <<clock, defaultIndex>>

\* updateAndHandleEmptyMap with the catch handler on the second submission
\* too: a missing map after the retry sets the map again.
Retry_CatchesAgain(p) ==
  LET pr == proc[p]
      id == pr.indexId IN
  /\ pr.pc = "retry"
  /\ \E out \in Outcomes(UpdateItem(store[id], pr.ddbParams), store[id]) :
       LET sent == Sent(pr, "update", id, out.error) IN
       /\ store' = [store EXCEPT ![id] = out.item]
       /\ Goes(p, IF out.error = NoError THEN Resolved(p, sent, id, Updated(out.item), clock)
                  ELSE IF IsMissingFieldPath(out.error) THEN Pending([sent EXCEPT !.pc = "init"])
                  ELSE Respond(p, sent, failure(out.error)))
  /\ UNCHANGED <<clock, defaultIndex>>

\* updateAndHandleEmptyMap: the second dynamodb.update(ddbParams) settles.
Retry(p) ==
  LET pr == proc[p]
      id == pr.indexId IN
  /\ pr.pc = "retry"
  /\ \E out \in Outcomes(UpdateItem(store[id], pr.ddbParams), store[id]) :
       LET sent == Sent(pr, "update", id, out.error) IN
       /\ store' = [store EXCEPT ![id] = out.item]
       /\ Goes(p, IF out.error = NoError THEN Resolved(p, sent, id, Updated(out.item), clock)
                  ELSE Respond(p, sent, failure(out.error)))
  /\ UNCHANGED <<clock, defaultIndex>>

\* getItem(event): the batchGet is sent.
GetItem(p) ==
  /\ proc[p].pc = "idle"
  /\ Goes(p, Pending([Started("getItem", Malformed) EXCEPT !.pc = "fetch"]))
  /\ UNCHANGED <<store, clock, defaultIndex>>

\* The value cleanZeroIndexes resolves to is handed to its caller: getItem
\* responds with it, beside what it fetched and decoded; a direct caller has
\* it beside the argument of the call.
Cleaned(p, pr, cleanedIndex) ==
  Respond(p, pr, success([ddbResponse |-> pr.ddbResponse,
                          indexesObject |-> pr.indexesObject,
                          cleanZeroIndexesObject |-> cleanedIndex]))

\* cleanZeroIndexes(indexObject) is called in process p: the kept entries go
\* into the maps of defaultIndex, and the batchWrite is sent when an entry was
\* dropped.
Clean(p, pr, indexObject) ==
  LET cleaned == cleanZeroIndexes(indexObject, defaultIndex[p]) IN
  /\ defaultIndex' = [defaultIndex EXCEPT ![p] = cleaned.cleanedIndex]
  /\ Goes(p, IF cleaned.updateNeeded
             THEN Pending([pr EXCEPT !.pc = "write",
                                     !.ddbParams = updateCleanIndexes(cleaned.cleanedIndex)])
             ELSE Cleaned(p, pr, cleaned.cleanedIndex))

\* The ways a batchGet or a batchWrite can end: fulfilled, or rejected
\* (throttling, network) with the table untouched.
BatchOutcomes == {NoError, StorageError}

\* getItem: the batchGet settles.  Fulfilled, parseIndexesObject and the
\* synchronous part of cleanZeroIndexes run; rejected, the await throws and the
\* catch of getItem responds with the failure.
Fetch(p) ==
  LET pr == proc[p]
      ddbResponse == BatchGet(store)
      indexesObject == parseIndexesObject(ddbResponse, defaultIndex[p]) IN
  /\ pr.pc = "fetch"
  /\ \E error \in BatchOutcomes :
       IF error = NoError
       THEN Clean(p, [Sent(pr, "batchGet", "both", NoError) EXCEPT
                        !.ddbResponse = ddbResponse,
                        !.indexesObject = indexesObject], indexesObject)
       ELSE /\ Goes(p, Respond(p, Sent(pr, "batchGet", "both", error), failure(error)))
            /\ UNCHANGED defaultIndex
  /\ UNCHANGED <<store, clock>>

\* cleanZeroIndexes: the batchWrite of updateCleanIndexes settles.  Fulfilled,
\* .then(() => cleanedIndex) hands back the maps of defaultIndex; rejected, the
\* promise rejects, so getItem responds with the failure, and the entries
\* already assigned into defaultIndex stay.
WriteBack(p) ==
  LET pr == proc[p] IN
  /\ pr.pc = "write"
  /\ \E error \in BatchOutcomes :
       LET sent == Sent(pr, "batchWrite", "both", error) IN
       /\ store' = IF error = NoError THEN BatchWrite(pr.ddbParams) ELSE store
       /\ Goes(p, IF error = NoError THEN Cleaned(p, sent, defaultIndex[p])
                  ELSE Respond(p, sent, failure(error)))
  /\ UNCHANGED <<clock, defaultIndex>>

\* A direct call of the exported updateIndexRecord(indexId, indexData).
UpdateIndexRecord(p, indexId, indexData) ==
  /\ proc[p].pc = "idle"
  /\ clock < MaxClock
  /\ clock' = clock + 1
  /\ Goes(p, Await(p, Started("updateIndexRecord",
                               [Malformed EXCEPT !.indexUpdate[indexId] = indexData]),
                    indexId, indexData, clock'))
  /\ UNCHANGED <<store, defaultIndex>>

\* A direct call of the exported parseIndexesObject(ddbResponse); the value it
\* returns is shown as indexesObject, beside its argument.
ParseIndexesObject(p, ddbResponse) ==
  /\ proc[p].pc = "idle"
  /\ Goes(p, Respond(p, Started("parseIndexesObject", Malformed),
                     success([ddbResponse |-> ddbResponse,
                              indexesObject |-> parseIndexesObject(ddbResponse, defaultIndex[p]),
                              cleanZeroIndexesObject |-> NoIndex])))
  /\ UNCHANGED <<store, clock, defaultIndex>>

\* A direct call of the exported cleanZeroIndexes(indexObject).
CleanZeroIndexes(p, indexObject) ==
  /\ proc[p].pc = "idle"
  /\ Clean(p, [Started("cleanZeroIndexes", Malformed) EXCEPT
                 !.indexesObject = indexObject], indexObject)
  /\ UNCHANGED <<store, clock>>

\* A direct call of cleanZeroIndexes on the snapshot the process has just been
\* handed by cleanZeroIndexes.
CleanZeroIndexesAgain(p) ==
  /\ callback.proc = p
  /\ callback.op \in {"getItem", "cleanZeroIndexes"}
  /\ callback.response.status = "success"
  /\ CleanZeroIndexes(p, callback.response.result.cleanZeroIndexesObject)

\* The operator resets an index as the README tells: aws dynamodb delete-item
\* removes the item of slot s.
DeleteItem(s) ==
  /\ store[s].exists
  /\ store' = [store EXCEPT ![s] = NoRecord]
  /\ callback' = NoCallback
  /\ UNCHANGED <<clock, defaultIndex, proc>>

\* The deployed service: processes serving putItem and getItem.
Next ==
  \/ \E p \in Procs, body \in Bodies : PutItem(p, body)
  \/ \E p \in Procs : Update(p)
  \/ \E p \in Procs : InitMap(p)
  \/ \E p \in Procs : Retry(p)
  \/ \E p \in Procs : GetItem(p)
  \/ \E p \in Procs : Fetch(p)
  \/ \E p \in Procs : WriteBack(p)

Spec == Init /\ [][Next]_vars

\* One process: its handlers and its exported functions, called one after
\* another in any order.
NextProcess ==
  \E p \in {"p1"} :
    \/ \E body \in Bodies : PutItem(p, body)
    \/ \E s \in Slots, d \in DirectUpdates : UpdateIndexRecord(p, s, d)
    \/ Update(p)
    \/ InitMap(p)
    \/ Retry(p)
    \/ GetItem(p)
    \/ Fetch(p)
    \/ \E r \in DirectResponses : ParseIndexesObject(p, r)
    \/ \E i \in DirectIndexes : CleanZeroIndexes(p, i)
    \/ CleanZeroIndexesAgain(p)
    \/ WriteBack(p)

SpecProcess == Init /\ [][NextProcess]_vars

\* One process serving putItem, and the operator resetting indexes meanwhile.
NextReset ==
  \/ \E body \in Bodies : PutItem("p1", body)
  \/ Update("p1")
  \/ InitMap("p1")
  \/ Retry("p1")
  \/ \E s \in Slots : DeleteItem(s)

SpecReset == Init /\ [][NextReset]_vars

\* Writers and one reader: both processes serve putItem, and one of them
\* serves getItem too.
NextOneReader ==
  \/ \E p \in Procs, body \in Bodies : PutItem(p, body)
  \/ \E p \in Procs : Update(p)
  \/ \E p \in Procs : InitMap(p)
  \/ \E p \in Procs : Retry(p)
  \/ GetItem("p2")
  \/ Fetch("p2")
  \/ WriteBack("p2")

SpecOneReader == Init /\ [][NextOneReader]_vars

----------------------------------------------------------------------------
(* What the claims speak of *)

\* The callback of the last step answers a call of op.
Answered(ops) == callback.op \in ops
Succeeded == callback.response.status = "success"

WriteOps == {"putItem", "updateIndexRecord"}
ReadOps == {"getItem", "cleanZeroIndexes"}

\* The requests a call sent for the item id, in order.
RequestsFor(requests, id) == SelectSeq(requests, LAMBDA r : r.id = id)

\* The deltas a call asks for in slot s: the entries with a number.
Deltas(event, s) ==
  IF event.indexUpdate[s] = Absent THEN EmptyMap
  ELSE LET m == event.indexUpdate[s][1] IN
       [k \in {x \in DOMAIN m : m[x].defined} |-> m[k].value]

\* The entries of map m with a value > 0.
Positive(m) == [k \in {x \in DOMAIN m : m[x] > 0} |-> m[k]]

\* The mapping a batch-read result carries for slot s, if any.
Carried(ddbResponse, s) ==
  {r.indexKeys[1] : r \in {x \in ddbResponse : x.id = s /\ x.indexKeys # Absent}}

\* Process p takes the step, and the step settles a request of p.
Settles(p) ==
  /\ proc[p].pc \notin {"idle"}
  /\ proc'[p] # proc[p]

\* The requests p has sent once the step is taken.
RequestsAfter(p) ==
  IF proc'[p].pc = "idle" THEN callback'.requests ELSE proc'[p].requests

\* The call p was serving before the step.
EventOf(p) == proc[p].event

\* The request of p that settles in the step is fulfilled.
FulfilledNow(p) ==
  LET after == RequestsAfter(p) IN
  after # <<>> /\ after[Len(after)].outcome = NoError

----------------------------------------------------------------------------
(* C1 .. C10 *)

\* C1: every snapshot cleanZeroIndexes hands back holds, for each slot,
\* exactly the entries of its argument whose value is > 0, with their values,
\* whatever was cleaned before in the process.
C1_PruneKeepsExactlyPositive ==
  (Answered(ReadOps) /\ Succeeded) =>
    \A s \in Slots :
      callback.response.result.cleanZeroIndexesObject[s]
        = Positive(callback.response.result.indexesObject[s])

\* C2: a fulfilled increment sets indexKeys[k] to (its prior value, or 0) + d
\* for every key k the call gives a delta d, leaves the other keys of the slot
\* and the other slot as they were, and sets updatedAt to a reading of the clock.
C2_IncrementStep(p) ==
  LET id == proc[p].indexId
      after == RequestsAfter(p)
      prior == IndexKeysOf(store[id])
      d == Deltas(EventOf(p), id) IN
  (/\ Settles(p)
   /\ proc[p].pc \in {"update", "retry"}
   /\ after[Len(after)].outcome = NoError)
  => /\ HasIndexKeys(store[id])
     /\ store'[id].indexKeys =
          Present([k \in DOMAIN prior \cup DOMAIN d |->
                     IF k \in DOMAIN d
                     THEN (IF k \in DOMAIN prior THEN prior[k] ELSE 0) + d[k]
                     ELSE prior[k]])
     /\ store'[id].updatedAt \in {Present(t) : t \in 1..clock}
     /\ \A s \in Slots \ {id} : store'[s] = store[s]

C2_IncrementAddsDeltas == [][\A p \in Procs : C2_IncrementStep(p)]_vars

\* C2 witness: an increment with a delta for a stored key and a delta for a
\* new key has been fulfilled at its first submission.
C2_Witness ==
  /\ Answered({"putItem"}) /\ Succeeded
  /\ RequestsFor(callback.requests, TAGS_ID) = <<Req("update", TAGS_ID, NoError)>>
  /\ IndexKeysOf(store[TAGS_ID]) = [k \in Keys |-> IF k = "a" THEN 0 ELSE 1]

\* The requests of a bootstrap: the increment fails for the missing map, the
\* map is set, the increment is sent again and fulfilled.
BootstrapRequests(s) ==
  <<Req("update", s, MissingFieldPath), Req("init", s, NoError), Req("update", s, NoError)>>

\* C3: with one writer, an increment of a slot whose item has no indexKeys
\* fails its first submission for the missing map, then sets the empty map
\* once, then is sent again and fulfilled (unless the table rejects a request
\* for another reason), and the slot's map is then exactly the deltas asked for.
C3_FirstSubmissionFails(p) ==
  LET id == proc[p].indexId
      after == RequestsAfter(p) IN
  (/\ Settles(p)
   /\ proc[p].pc = "update"
   /\ ~HasIndexKeys(store[id])
   /\ after[Len(after)].outcome # StorageError)
  => /\ RequestsFor(after, id) = <<Req("update", id, MissingFieldPath)>>
     /\ proc'[p].pc = "init"
     /\ store' = store

C3_Bootstrapped ==
  (Answered(WriteOps)) =>
    \A s \in Slots :
      LET sent == RequestsFor(callback.requests, s) IN
      (/\ sent # <<>>
       /\ sent[1].outcome = MissingFieldPath
       /\ \A i \in DOMAIN sent : sent[i].outcome # StorageError)
      => /\ sent = BootstrapRequests(s)
         /\ store[s].indexKeys = Present(Deltas(callback.event, s))

C3_SingleWriterBootstrap ==
  /\ []C3_Bootstrapped
  /\ [][\A p \in Procs : C3_FirstSubmissionFails(p)]_vars

\* C3 witness: a putItem has bootstrapped the tags slot.
C3_Witness ==
  /\ Answered({"putItem"}) /\ Succeeded
  /\ RequestsFor(callback.requests, TAGS_ID) = BootstrapRequests(TAGS_ID)
  /\ IndexKeysOf(store[TAGS_ID]) = [k \in Keys |-> IF k = "a" THEN -1 ELSE 1]

\* C4: a writer whose initialize write is refused because indexKeys already
\* exists still sends its increment again, and its write ends without an error.
C4_LoserOfInitializeRetries ==
  Answered(WriteOps) =>
    \A i \in DOMAIN callback.requests :
      (/\ callback.requests[i].request = "init"
       /\ callback.requests[i].outcome = ConditionalCheckFailed)
      => /\ i < Len(callback.requests)
         /\ callback.requests[i + 1].request = "update"
         /\ callback.requests[i + 1].id = callback.requests[i].id
         /\ callback.response # failure(ConditionalCheckFailed)

\* A slot of a request body is skipped: it is missing or has no entry with a number.
NoValidKey(event, s) == DOMAIN Deltas(event, s) = {}
Rejected(requests) ==
  \E i \in DOMAIN requests : requests[i].outcome \in {StorageError, ConditionalCheckFailed}

\* C5: a putItem whose body parses, and of which the table rejects no request,
\* responds with success; a slot the body omits or gives no valid key is
\* answered with the skipped marker.
C5_OmittedSlotIsSkipped ==
  (/\ Answered({"putItem"})
   /\ ~callback.event.malformed
   /\ ~Rejected(callback.requests))
  => /\ Succeeded
     /\ NoValidKey(callback.event, TAGS_ID)
          => callback.response.result.tagsUpdateResponse = Skipped
     /\ NoValidKey(callback.event, PEOPLE_ID)
          => callback.response.result.peopleUpdateResponse = Skipped

\* What a write call answers for slot s.
SlotResponse(s) ==
  IF callback.op = "putItem"
  THEN (IF s = TAGS_ID THEN callback.response.result.tagsUpdateResponse
        ELSE callback.response.result.peopleUpdateResponse)
  ELSE callback.response.result

\* C6: for a slot whose deltas hold no valid entry (an empty dictionary, or
\* undefined values only) no request is sent to the table, the initialize
\* write included, and the slot is answered with the skipped marker.
C6_NoRequestForSkippedSlot ==
  Answered(WriteOps) =>
    \A s \in Slots :
      (callback.event.indexUpdate[s] # Absent /\ NoValidKey(callback.event, s))
      => /\ RequestsFor(callback.requests, s) = <<>>
         /\ Succeeded => SlotResponse(s) = Skipped

\* C6: the item of a slot changes only when a request settles that a call sent
\* for valid deltas of that slot, or a batchWrite.
C6_ItemChangesByRequest ==
  \A s \in Slots :
    store'[s] # store[s] =>
      \E p \in Procs :
        /\ Settles(p)
        /\ \/ proc[p].pc = "write"
           \/ /\ proc[p].pc \in {"update", "init", "retry"}
              /\ proc[p].indexId = s
              /\ ~NoValidKey(EventOf(p), s)

C6_SkippedSlotUntouched ==
  /\ []C6_NoRequestForSkippedSlot
  /\ [][C6_ItemChangesByRequest]_vars

\* C6 witness: updateIndexRecord was called with undefined values only and
\* has answered with the skipped marker.
C6_Witness ==
  /\ Answered({"updateIndexRecord"}) /\ Succeeded
  /\ callback.event.indexUpdate[TAGS_ID] = Present([k \in {"a"} |-> Undefined])
  /\ callback.response.result = Skipped
  /\ callback.requests = <<>>

BatchWritten(requests) == \E i \in DOMAIN requests : requests[i].request = "batchWrite"

\* C7: when every counter of the snapshot given to cleanZeroIndexes is > 0,
\* no batchWrite is sent and the snapshot handed back equals the one given.
C7_AllPositiveIsHandedBack ==
  (/\ Answered(ReadOps) /\ Succeeded
   /\ \A s \in Slots : \A k \in DOMAIN callback.response.result.indexesObject[s] :
        callback.response.result.indexesObject[s][k] > 0)
  => /\ ~BatchWritten(callback.requests)
     /\ callback.response.result.cleanZeroIndexesObject
          = callback.response.result.indexesObject

\* The mapping a read fetched for slot s: the one the batch-read result
\* carries, the empty one when it carries none.
Fetched(ddbResponse, s) ==
  IF Carried(ddbResponse, s) = {} THEN EmptyMap
  ELSE CHOOSE m \in Carried(ddbResponse, s) : TRUE

\* C8: when the write-back of a read is fulfilled on a table that no writer has
\* changed since the read fetched it, the stored indexKeys of both slots
\* become exactly the entries > 0 of what the read fetched.
C8_WriteBackStep(p) ==
  (/\ Settles(p)
   /\ proc[p].pc = "write"
   /\ proc[p].op = "getItem"
   /\ FulfilledNow(p)
   /\ BatchGet(store) = proc[p].ddbResponse)
  => \A s \in Slots :
       store'[s].indexKeys = Present(Positive(Fetched(proc[p].ddbResponse, s)))

C8_WriteBackStoresPositiveOfFetched == [][\A p \in Procs : C8_WriteBackStep(p)]_vars

\* C9: the decoded IndexSet holds for each slot the mapping the batch-read
\* result carries, and the empty mapping when it carries none.
C9_DecodeGivesStoredOrEmpty ==
  (Answered({"getItem", "parseIndexesObject"}) /\ Succeeded)
  => \A s \in Slots :
       callback.response.result.indexesObject[s]
         = Fetched(callback.response.result.ddbResponse, s)

\* C10: when the first submission of an increment is rejected with an error
\* other than the missing map, no initialize write and no second submission
\* follow, and the write responds with that error.
C10_NoBootstrapAfterOtherError ==
  Answered(WriteOps) =>
    \A s \in Slots :
      LET sent == RequestsFor(callback.requests, s) IN
      (sent # <<>> /\ sent[1].outcome = StorageError)
      => /\ sent = <<Req("update", s, StorageError)>>
         /\ callback.requests[Len(callback.requests)] = sent[1]
         /\ callback.response = failure(StorageError)

\* C10: the step in which that rejection arrives ends the call and leaves the
\* table as it was.
C10_RejectionEndsCall(p) ==
  LET after == RequestsAfter(p) IN
  (/\ Settles(p)
   /\ proc[p].pc = "update"
   /\ after[Len(after)].outcome = StorageError)
  => /\ store' = store
     /\ proc'[p].pc = "idle"
     /\ callback'.response = failure(StorageError)

C10_OtherErrorIsSurfaced ==
  /\ []C10_NoBootstrapAfterOtherError
  /\ [][\A p \in Procs : C10_RejectionEndsCall(p)]_vars

\* C10 witness: a putItem whose tags increment was rejected at its first
\* submission has responded with the failure.
C10_Witness ==
  /\ Answered({"putItem"})
  /\ callback.requests = <<Req("update", TAGS_ID, StorageError)>>
  /\ callback.response = failure(StorageError)

----------------------------------------------------------------------------
(* C11 .. C19 *)

\* The counter of key k in an item: 0 when the item or the key is missing.
Counter(rec, k) ==
  IF HasIndexKeys(rec) /\ k \in DOMAIN IndexKeysOf(rec) THEN IndexKeysOf(rec)[k] ELSE 0

\* How many increments of slot s the table fulfilled among the requests.
Fulfilled(requests, s) ==
  Len(SelectSeq(requests, LAMBDA r : r.id = s /\ r.request = "update" /\ r.outcome = NoError))

\* C11: in any interleaving of writers, a fulfilled increment of a slot adds
\* its deltas to the counters as they are stored at that moment, and any other
\* request of a writer (a rejected increment, the initialize write) changes no
\* counter: the stored counters are the initial ones plus the deltas of the
\* fulfilled increments.
C11_WriterStep(p) ==
  LET id == proc[p].indexId
      after == RequestsAfter(p)
      d == Deltas(EventOf(p), id)
      fulfilled == /\ after[Len(after)].request = "update"
                   /\ after[Len(after)].outcome = NoError IN
  (Settles(p) /\ proc[p].pc \in {"update", "init", "retry"})
  => \A s \in Slots, k \in Keys :
       Counter(store'[s], k) =
         Counter(store[s], k) + (IF fulfilled /\ s = id /\ k \in DOMAIN d THEN d[k] ELSE 0)

\* C11: each increment contributes once or not at all.  An increment is
\* reported failed when the table rejects the last request sent for its slot,
\* and then none was fulfilled for the slot; in a write reported successful
\* exactly one was fulfilled for each slot given valid deltas; never more than one.
C11_RejectedIncrementAddsNothing ==
  Answered(WriteOps) =>
    \A s \in Slots :
      LET sent == RequestsFor(callback.requests, s) IN
      /\ Succeeded =>
           Fulfilled(callback.requests, s) = (IF NoValidKey(callback.event, s) THEN 0 ELSE 1)
      /\ Fulfilled(callback.requests, s) <= 1
      /\ (sent # <<>> /\ sent[Len(sent)].outcome # NoError)
           => Fulfilled(callback.requests, s) = 0

C11_NoLostIncrements ==
  /\ []C11_RejectedIncrementAddsNothing
  /\ [][\A p \in Procs : C11_WriterStep(p)]_vars

\* C11 witness: two writes overlap on the tags slot, which held no counter;
\* one has responded with success, the other has had its tags increment
\* fulfilled and is updating the people slot, and both deltas are stored.
C11_Witness ==
  /\ Answered({"putItem"}) /\ Succeeded
  /\ Fulfilled(callback.requests, TAGS_ID) = 1
  /\ \E p \in Procs \ {callback.proc} :
       /\ proc[p].pc = "update" /\ proc[p].indexId = PEOPLE_ID
       /\ Fulfilled(proc[p].requests, TAGS_ID) = 1
  /\ Counter(store[TAGS_ID], "b") = 2

\* C12: the write-back of a read, when fulfilled, replaces both items by the snapshot the read
\* made from what it fetched, whatever has been stored since, and the read
\* responds with success: an increment fulfilled between the fetch and the
\* write-back is overwritten without an error.
C12_WriteBackStep(p) ==
  (Settles(p) /\ proc[p].pc = "write" /\ proc[p].op = "getItem" /\ FulfilledNow(p))
  => LET snapshot == cleanZeroIndexes(proc[p].indexesObject, defaultIndex[p]).cleanedIndex IN
     /\ \A s \in Slots : store'[s] = Record(Present(snapshot[s]), Absent)
     /\ callback'.response.status = "success"
     /\ callback'.response.result.cleanZeroIndexesObject = snapshot

C12_PruneOverwritesIncrement == [][\A p \in Procs : C12_WriteBackStep(p)]_vars

\* C12 witness: one write and one read; the write has just responded with
\* success, its people increment was fulfilled after the read had fetched, and
\* the write-back the read has sent holds the people counters without the delta.
C12_Witness ==
  /\ clock = 1
  /\ Answered({"putItem"}) /\ Succeeded
  /\ Fulfilled(callback.requests, PEOPLE_ID) = 1
  /\ \E p \in Procs \ {callback.proc} :
       /\ proc[p].pc = "write" /\ proc[p].op = "getItem"
       /\ Fetched(proc[p].ddbResponse, PEOPLE_ID) = [k \in {"a"} |-> 1]
       /\ proc[p].ddbParams.Item[PEOPLE_ID].indexKeys = [k \in {"a"} |-> 1]
       /\ IndexKeysOf(store[PEOPLE_ID]) = [k \in Keys |-> IF k = "a" THEN 0 ELSE 1]

\* The step is a call of cleanZeroIndexes in process p on the snapshot that
\* the last step handed back in p.
PrunesAgain(p) ==
  /\ proc[p].pc = "idle"
  /\ callback.proc = p /\ Answered(ReadOps) /\ Succeeded
  /\ \/ /\ proc'[p].pc = "write" /\ proc'[p].op = "cleanZeroIndexes"
        /\ proc'[p].indexesObject = callback.response.result.cleanZeroIndexesObject
     \/ /\ callback'.proc = p /\ callback'.op = "cleanZeroIndexes"
        /\ callback'.response.result.indexesObject
             = callback.response.result.cleanZeroIndexesObject

\* C13: cleanZeroIndexes applied to a snapshot it has just handed back hands
\* back an equal snapshot at once: no entry is dropped and no batchWrite is sent.
C13_PruneAgainStep(p) ==
  PrunesAgain(p)
  => /\ proc'[p].pc = "idle"
     /\ callback'.response.status = "success"
     /\ callback'.response.result.cleanZeroIndexesObject
          = callback.response.result.cleanZeroIndexesObject
     /\ callback'.requests = <<>>
     /\ store' = store

C13_PruneIsIdempotent == [][\A p \in Procs : C13_PruneAgainStep(p)]_vars

\* C13 witness: cleanZeroIndexes has dropped an entry and written back, was
\* called again on what it handed back, and has answered without a request.
C13_Witness ==
  /\ Answered({"cleanZeroIndexes"}) /\ Succeeded
  /\ callback.requests = <<>>
  /\ callback.response.result.indexesObject[TAGS_ID] = [k \in {"b"} |-> 1]
  /\ callback.response.result.cleanZeroIndexesObject[TAGS_ID] = [k \in {"b"} |-> 1]
  /\ IndexKeysOf(store[TAGS_ID]) = [k \in {"b"} |-> 1]

\* Every counter of the snapshot is > 0.
AllPositive(indexObject) ==
  \A s \in Slots : \A k \in DOMAIN indexObject[s] : indexObject[s][k] > 0

\* C14: every snapshot a read hands back, and every pair of maps a read sends
\* in its batchWrite, holds counters > 0 only.
C14_ReturnedIsPositive ==
  (Answered(ReadOps) /\ Succeeded)
  => AllPositive(callback.response.result.cleanZeroIndexesObject)

C14_WrittenBackIsPositive ==
  \A p \in Procs :
    proc[p].pc = "write"
    => AllPositive([s \in Slots |-> proc[p].ddbParams.Item[s].indexKeys])

C14_WriteBackStep(p) ==
  (Settles(p) /\ proc[p].pc = "write" /\ FulfilledNow(p))
  => AllPositive([s \in Slots |-> IndexKeysOf(store'[s])])

C14_PrunedIsPositive ==
  /\ [](C14_ReturnedIsPositive /\ C14_WrittenBackIsPositive)
  /\ [][\A p \in Procs : C14_WriteBackStep(p)]_vars

\* C14 witness: a getItem fetched a counter of 0 among the tags, wrote back
\* and has handed back the tags without it.
C14_Witness ==
  /\ Answered({"getItem"}) /\ Succeeded
  /\ BatchWritten(callback.requests)
  /\ Fetched(callback.response.result.ddbResponse, TAGS_ID)
       = [k \in Keys |-> IF k = "a" THEN 0 ELSE 1]
  /\ callback.response.result.cleanZeroIndexesObject[TAGS_ID] = [k \in {"b"} |-> 1]
  /\ IndexKeysOf(store[TAGS_ID]) = [k \in {"b"} |-> 1]

\* How many requests of a kind were sent for slot s.
SentFor(requests, s, kind) ==
  Len(SelectSeq(requests, LAMBDA r : r.id = s /\ r.request = kind))

RequestsBounded(requests) ==
  \A s \in Slots :
    /\ Len(RequestsFor(requests, s)) <= 3
    /\ SentFor(requests, s, "update") <= 2
    /\ SentFor(requests, s, "init") <= 1

\* C15: a call of updateAndHandleEmptyMap sends at most three requests for
\* its slot: the increment at most twice and the initialize write at most once.
C15_AtMostThreeRequests ==
  /\ \A p \in Procs : RequestsBounded(proc[p].requests)
  /\ Answered(WriteOps) => RequestsBounded(callback.requests)

\* C15: when the second submission of the increment is rejected, for the
\* missing map again or for another reason, the call ends with that error and
\* the table is as it was.
C15_RetryStep(p) ==
  LET after == RequestsAfter(p) IN
  (/\ Settles(p)
   /\ proc[p].pc = "retry"
   /\ after[Len(after)].outcome # NoError)
  => /\ proc'[p].pc = "idle"
     /\ callback'.response = failure(after[Len(after)].outcome)
     /\ store' = store

C15_BootstrapRetriesOnce ==
  /\ []C15_AtMostThreeRequests
  /\ [][\A p \in Procs : C15_RetryStep(p)]_vars

\* C15 witness: the tags item was removed between the initialize write and the
\* second submission, which failed for the missing map again; putItem has
\* responded with that failure after three requests.
C15_Witness ==
  /\ Answered({"putItem"})
  /\ callback.requests = <<Req("update", TAGS_ID, MissingFieldPath),
                           Req("init", TAGS_ID, NoError),
                           Req("update", TAGS_ID, MissingFieldPath)>>
  /\ callback.response = failure(MissingFieldPath)

\* C16: an initialize write that settles while the item of its slot has an
\* indexKeys map changes nothing in the table, whoever set the map and
\* whatever counters it holds.
C16_InitializeStep(p) ==
  (/\ Settles(p)
   /\ proc[p].pc = "init"
   /\ HasIndexKeys(store[proc[p].indexId]))
  => store' = store

C16_InitializeNeverClobbers == [][\A p \in Procs : C16_InitializeStep(p)]_vars

\* C16 witness: an initialize write for the tags was refused while another
\* writer's counters were stored, and they are stored still.
C16_Witness ==
  /\ Answered({"putItem"})
  /\ callback.requests # <<>>
  /\ callback.requests[Len(callback.requests)] = Req("init", TAGS_ID, ConditionalCheckFailed)
  /\ IndexKeysOf(store[TAGS_ID]) = [k \in Keys |-> IF k = "a" THEN -1 ELSE 1]

\* The last request sent for slot s was rejected.
RejectedFor(requests, s) ==
  LET sent == RequestsFor(requests, s) IN
  sent # <<>> /\ sent[Len(sent)].outcome # NoError

\* C17: putItem sends the requests for the tags, then those for the people,
\* and none to undo an increment.  When the tags increment is rejected, no
\* request is sent for the people and putItem responds with failure; when the
\* people increment is rejected after the tags increment was fulfilled,
\* putItem responds with failure and has sent nothing more for the tags.
C17_TagsThenPeople ==
  Answered({"putItem"}) =>
    LET sent == callback.requests
        tags == RequestsFor(sent, TAGS_ID)
        people == RequestsFor(sent, PEOPLE_ID) IN
    /\ sent = tags \o people
    /\ RejectedFor(sent, TAGS_ID)
         => /\ people = <<>>
            /\ callback.response = failure(tags[Len(tags)].outcome)
    /\ RejectedFor(sent, PEOPLE_ID)
         => /\ callback.response = failure(people[Len(people)].outcome)
            /\ ~NoValidKey(callback.event, TAGS_ID)
                 => /\ Fulfilled(sent, TAGS_ID) = 1
                    /\ tags[Len(tags)] = Req("update", TAGS_ID, NoError)

\* C17: the step in which a request of putItem is rejected and putItem
\* responds leaves both items as they are: the people item when the tags
\* increment failed, the incremented tags item when the people increment failed.
C17_FailureStep(p) ==
  (/\ Settles(p)
   /\ proc[p].op = "putItem"
   /\ proc[p].pc \in {"update", "init", "retry"}
   /\ proc'[p].pc = "idle"
   /\ callback'.requests[Len(callback'.requests)].outcome # NoError)
  => /\ callback'.response.status = "failure"
     /\ store' = store

C17_WriteIsAppliedInPart ==
  /\ []C17_TagsThenPeople
  /\ [][\A p \in Procs : C17_FailureStep(p)]_vars

\* C17 witness: the tags increment was fulfilled, the people increment was
\* rejected; putItem has responded with failure, the tags deltas are stored
\* and the people counters are as they were.
C17_Witness ==
  /\ Answered({"putItem"})
  /\ callback.requests = <<Req("update", TAGS_ID, NoError),
                           Req("update", PEOPLE_ID, StorageError)>>
  /\ callback.response = failure(StorageError)
  /\ IndexKeysOf(store[TAGS_ID]) = [k \in Keys |-> IF k = "a" THEN 0 ELSE 1]
  /\ IndexKeysOf(store[PEOPLE_ID]) = [k \in {"a"} |-> 1]

\* The indexKeys stored for slot s: the empty map when the item has none.
Stored(s) == IF HasIndexKeys(store[s]) THEN IndexKeysOf(store[s]) ELSE EmptyMap

\* What a getItem of process p answers when it starts now, nothing is written
\* before its batchGet settles and the table rejects none of its requests.
ReadNow(p) ==
  cleanZeroIndexes(parseIndexesObject(BatchGet(store), defaultIndex[p]), defaultIndex[p])

\* C18: when a read has just completed and a process starts the next read,
\* that read drops no entry, so sends no batchWrite, and hands back the
\* snapshot the completed read handed back, which is what both items hold.
C18_ReadAgainStep(p) ==
  (/\ Answered({"getItem"}) /\ Succeeded
   /\ proc[p].pc = "idle"
   /\ proc'[p].pc = "fetch")
  => /\ ~ReadNow(p).updateNeeded
     /\ ReadNow(p).cleanedIndex = callback.response.result.cleanZeroIndexesObject
     /\ \A s \in Slots : ReadNow(p).cleanedIndex[s] = Stored(s)

C18_ReadIsStable == [][\A p \in Procs : C18_ReadAgainStep(p)]_vars

\* The step settles a request that process p sent for an increment of slot s.
IncrementsSlot(p, s) ==
  /\ Settles(p)
  /\ proc[p].pc \in {"update", "init", "retry"}
  /\ proc[p].indexId = s

\* The step settles the batchWrite of a read of process p, fulfilled.
WritesBack(p) == Settles(p) /\ proc[p].pc = "write" /\ FulfilledNow(p)

\* No step of putItem or getItem removes an item.
ItemsStay == \A s \in Slots : store[s].exists => store'[s].exists

\* C19, as claimed: the item of a slot comes into existence only in a step of
\* an increment of that slot, and an item that exists is never removed.
C19_CreatedByIncrementStep ==
  /\ \A s \in Slots :
       (~store[s].exists /\ store'[s].exists) => \E p \in Procs : IncrementsSlot(p, s)
  /\ ItemsStay

C19_CreatedByIncrementOnly == [][C19_CreatedByIncrementStep]_vars

\* C19, amended: the item of a slot comes into existence only in a step of an
\* increment of that slot or in the write-back of a read, which puts the items
\* of both slots; an item that exists is never removed.
C19_CreatedByWriteStep ==
  /\ \A s \in Slots :
       (~store[s].exists /\ store'[s].exists)
       => \E p \in Procs : IncrementsSlot(p, s) \/ WritesBack(p)
  /\ ItemsStay

C19_CreatedByIncrementOrWriteBack == [][C19_CreatedByWriteStep]_vars

\* C19 witness: a getItem that fetched no people item has written back, and
\* the people item exists with an empty map though no call gave it a delta.
C19_Witness ==
  /\ clock = 1
  /\ Answered({"getItem"}) /\ Succeeded
  /\ BatchWritten(callback.requests)
  /\ \A r \in callback.response.result.ddbResponse : r.id # PEOPLE_ID
  /\ store[PEOPLE_ID] = Record(Present(EmptyMap), Absent)
  /\ \A p \in Procs : proc[p].pc = "idle"

====
